---- MODULE Spec2Model ----
(***************************************************************************)
(* LiveUploader (src/live_uploader.py) driven by two threads: the          *)
(* UploaderThread worker (src/gui/uploader_thread.py), which runs          *)
(* upload(), and the control thread, which calls pause_upload,             *)
(* resume_upload, the current_index setter, cleanup and                    *)
(* UploaderThread.stop.  Every Python statement is one atomic step (the    *)
(* interpreter may switch threads between any two statements); the two     *)
(* attribute reads of "pause_requested and not resume_requested" are two   *)
(* steps.                                                                  *)
(*                                                                         *)
(* None is modelled by 0 for the connection handle, points_per_upload and  *)
(* upload_interval (their real values are >= 1) and by the empty sequence  *)
(* for processed_data.  The timestamp list is modelled by its length and   *)
(* the spacing of its instants.  Intervals are counted in units of 0.05 s, *)
(* the step of the two interval spin boxes (live_uploader_gui.py 727-739). *)
(***************************************************************************)
EXTENDS Integers, Sequences, FiniteSets, TLC

\* ------------------------------------------------------------------ bounds
MaxPoints == 3     \* largest number of data points (timestamps) loaded
MaxInterval == 2   \* data point and upload intervals range over 1..MaxInterval
MaxChunks == 1     \* largest number of 40 ms chunks of one inter-write sleep
MaxRuns == 2       \* worker threads started over the life of the engine
MaxCalls == 3      \* pause/resume/seek/stop/cleanup calls by the control thread
MaxTicks == 6      \* intervals of the cadence computation range over 1..MaxTicks
MaxColumns == 8    \* widths and bucket sizes given to _preprocess_data

NoIdx == 0 - 1     \* "no index" in the history variables
Pausing == 0 - 2   \* "pause() in progress" in the history variables
NoData == <<>>     \* processed_data = None
\* database_name, measurement_name, host and port after __init__ (None,
\* written "None" for the strings and 0 for the port), and one valid setting
NoDetails ==
    [database_name |-> "None", measurement_name |-> "None", host |-> "None",
     port |-> 0]
SomeDetails ==
    [database_name |-> "a", measurement_name |-> "a", host |-> "a",
     port |-> 1]
\* LiveUploaderGUI after __init__ (live_uploader_gui.py 44-58).  datastream
\* is the number of columns of the loaded matrix, 0 for None.
\* uploader_thread is "none" (None), "running" (a thread whose isRunning()
\* is true) or "finished" (a thread whose run() has returned).  delivered:
\* the terminal signal of that thread has been handled.  orphans: threads
\* the GUI has dropped or replaced whose terminal signal may still arrive.
\* started: the threads started on the present engine (a history field).
\* current_index is the GUI's own index, slider the value of timeline_slider,
\* index_updated the index_updated signals of the GUI's thread that are
\* queued for the GUI thread, oldest first.
NoGui ==
    [is_playing |-> FALSE, datastream |-> 0, db_settings |-> FALSE,
     uploader_thread |-> "none", delivered |-> FALSE, orphans |-> 0,
     started |-> 0, current_index |-> 0, slider |-> 0,
     index_updated |-> <<>>]
\* the locals of _process_single_upload when no call is in progress
NoFrame == [aligned |-> 0, end |-> 0, index |-> 0]

VARIABLES
    \* LiveUploader fields (live_uploader.py 11-35)
    timestamps_set, database_details_set, timestamps,
    \* database_name, measurement_name, host and port, and database_cleared
    details, database_cleared,
    pause_requested, resume_requested,
    current_index, last_processed_index,
    client, processed_data, points_per_upload, upload_interval, initialized,
    \* the InfluxDB connections ever opened: conns[h] is "open" or "closed"
    conns,
    \* the worker thread: position in run()/upload(), locals, terminal signal
    wpc, w_interval, w_points, w_aligned, w_end, w_index, w_client, w_chunks,
    signal,
    \* the control thread: position inside the call it is executing
    cpc, c_arg, c_stop, c_frame,
    \* the numbers of threads started and of control calls made so far
    runs, calls,
    \* the GUI: is_playing, the loaded datastream, db_settings, and its
    \* uploader_thread
    gui,
    \* history record (written by the actions, read only by the properties)
    hist

engine == <<timestamps_set, database_details_set, timestamps,
            details, database_cleared,
            pause_requested, resume_requested, current_index,
            last_processed_index, client, processed_data, points_per_upload,
            upload_interval, initialized, conns>>
worker == <<wpc, w_interval, w_points, w_aligned, w_end, w_index, w_client,
            w_chunks, signal>>
control == <<cpc, c_arg, c_stop, c_frame>>
counts == <<runs, calls, gui>>
vars == <<engine, worker, control, counts, hist>>

config == <<timestamps_set, database_details_set, timestamps, details,
            database_cleared>>
flags == <<pause_requested, resume_requested>>
position == <<current_index, last_processed_index>>
session == <<client, processed_data, points_per_upload, upload_interval,
             initialized, conns>>
frame == <<w_aligned, w_end, w_index, w_client>>
wlocals == <<w_interval, w_points, w_chunks, frame>>
others == <<control, counts>>

Min(a, b) == IF a < b THEN a ELSE b

\* len(self.timestamps)
TotalPoints == timestamps.count

\* ---------------------------------------------------------- pure functions

\* range(start, stop, step) for step > 0, as a sequence
RECURSIVE Range(_, _, _)
Range(start, stop, step) ==
    IF start >= stop THEN <<>>
    ELSE <<start>> \o Range(start + step, stop, step)

\* the columns of data_array[:, i : j]: a slice is clipped at the width
Slice(i, j, cols) == <<Min(i, cols), Min(j, cols)>>

\* A variant of PreprocessData that keeps only the slices of full width.
PreprocessDataFullOnly(cols, p) ==
    LET starts == Range(0, cols - p + 1, p)
    IN [b \in 1..Len(starts) |-> Slice(starts[b], starts[b] + p, cols)]

\* _preprocess_data: one bucket per i in range(0, cols, p); the bucket is
\* the mean of the columns data_array[:, i : i + p].  A bucket is modelled
\* by the column window it averages.
PreprocessData(cols, p) ==
    LET starts == Range(0, cols, p)
    IN [b \in 1..Len(starts) |-> Slice(starts[b], starts[b] + p, cols)]

\* int(upload_interval / data_point_interval), line 78, for intervals of
\* u and d units of 0.05 s.  Both operands are binary doubles (the spin box
\* value and timedelta.total_seconds()), "/" is the IEEE double division and
\* int() truncates.  For the pairs of BelowInteger, with d dividing u, the
\* quotient of the doubles is just below the integer u/d (0.15 / 0.05 is
\* 2.9999999999999996, 0.3 / 0.05 is 5.999999999999999, ...), so int()
\* yields u/d - 1; for every other pair with u, d <= 20 it yields the floor
\* of u/d.
BelowInteger ==
    {<<3, 1>>, <<6, 1>>, <<6, 2>>, <<7, 1>>, <<12, 1>>, <<12, 2>>, <<12, 4>>,
     <<14, 1>>, <<14, 2>>, <<19, 1>>}
IntQuotient(u, d) ==
    IF <<u, d>> \in BelowInteger THEN (u \div d) - 1 ELSE u \div d

\* A variant of AlignedPosition: the window starts at the position itself.
AlignedPositionUnaligned(pos, p) ==
    pos

\* A variant of EndIndex: the window is not clipped at the number of points.
EndIndexUnclipped(aligned, p, total) ==
    aligned + p

\* aligned_position, end_index and data_index of _process_single_upload
AlignedPosition(pos, p) ==
    (pos \div p) * p
EndIndex(aligned, p, total) ==
    Min(aligned + p, total)
DataIndex(aligned, p) == aligned \div p

\* ------------------------------------------------------------- worker sets
Running == wpc \notin {"idle", "done", "error"}
EntryPcs == {"reset_p", "reset_r"}
CheckPcs == {"loop", "chk_p", "chk_r", "pwait", "resync"}
IterPcs == {"notify", "write", "writing", "guard", "adv_cur", "adv_last"}
SleepPcs == {"sleep", "poll_p", "poll_r", "poll_wait", "chunk"}
\* upload() up to line 107: _initialize_upload and the warning
PreEntryPcs == {"init", "open", "store_ui", "store_ppu", "preprocess",
                "store_data", "set_init", "reset_p"}
\* the loop of _process_uploads, lines 141-149
LoopPcs == CheckPcs \cup {"window"} \cup IterPcs \cup SleepPcs
\* the worker has run line 107 and is inside _perform_live_upload
LoopStarted == wpc \in {"reset_r"} \cup LoopPcs

\* ---------------------------------------------------------------- history
\* What has happened so far, for the properties below.
\*   seekBegan   the seek in progress began after the current iteration's
\*               window was computed and before its advance guard
\*   seekIter    k when seek(k) began and completed in that interval
\*   seekNext    that k, from the next window computation to the next write
\*   seekSince   a seek wrote the position or the mirror since the current
\*               iteration's window was computed
\*   wrote       the bucket the current iteration has written
\*   cycle       "pausing"/"paused": a pause() was issued / has completed
\*               during the sleep that followed that write, no seek since;
\*               "resumed": the resume() ending that pause has been issued
\*               and the worker has not written since
\*   cycleBucket the bucket written before that pause
\*   pending     k when seek(k) completed while the worker was in the pause
\*               check, the pause wait or the sleep, and no seek began and
\*               no write was attempted since
\*   paused      a pause() completed while the worker was running and its
\*               next pause check came before its next write, no resume()
\*               issued since
\*   writeFailed a write of the current run has failed
\*   cancelled   a cleanup() completed while the worker was inside
\*               _perform_live_upload
\*   lateWrite   the worker began a write after that
\*   failed      the connection of the last write that failed
\*   cleaning, cleaned   a cleanup() called after a write error ended the
\*               run is in progress / has completed
\*   held        the handle in self.client when that cleanup() was called
\*   reinit      the current run is the first one started after that
\*               cleanup(), and no control call was made during its
\*               _initialize_upload
\*   written     the number of writes completed by the first thread started,
\*               as long as no control call has been made (0 afterwards)
\*   step        the last call of upload_single_point: "noop" (returned at
\*               line 97), "called", "running" (window computed, bucket in
\*               range), "empty" (returned with the bucket out of range),
\*               "returned", "raised"; "none" before the first call
\*   stepPos     the position that call read at line 155
\*   stepWrites  the number of calls of write_points it has made
\*   call        the last call of set_database_details or clear_measurements
\*   raised      the exception that call raised, "none" when it returned
\*   initP       the points_per_upload computed by the last initialization
\*   startAt     the position at which the current run was started, until
\*               its first write has returned or raised or a control call
\*               is made
\*   notified    the window bounds progress_handler was called with since
\*               the window of the current iteration was computed
\*   sincePause  the number of writes the worker has begun since a pause()
\*               called with the worker in the loop or the sleep returned,
\*               while no resume() has been called; Pausing while that
\*               pause() is between its two assignments; NoIdx otherwise
\*   earlyPause  "pause" or "stop": the last call of pause() or stop() began
\*               after the thread was started and before the worker ran
\*               line 107, no resume() has been called since and the worker
\*               has not completed a write; "none" otherwise
\*   lastCall    "pause" or "resume": the last call of pause() or resume()
\*               that began after the worker ran line 107 and has
\*               returned; "pausing"/"resuming" while such a call is
\*               between its two assignments, "early" while one that began
\*               before line 107 is; "none" otherwise
\*   emitted     the terminal signals (finished, or error with its reason)
\*               that the run() of the last thread started has emitted
\* The fields up to "paused" describe the loop of the current run and are
\* reset when the run ends.
NoHistory ==
    [seekBegan |-> FALSE, seekIter |-> NoIdx, seekNext |-> NoIdx,
     seekSince |-> FALSE, wrote |-> NoIdx, cycle |-> "none",
     cycleBucket |-> NoIdx, pending |-> NoIdx, paused |-> FALSE,
     writeFailed |-> FALSE, cancelled |-> FALSE,
     lateWrite |-> FALSE, failed |-> 0, cleaning |-> FALSE,
     held |-> 0, cleaned |-> FALSE, reinit |-> FALSE, written |-> 0,
     step |-> "none", stepPos |-> NoIdx, stepWrites |-> 0,
     call |-> "none", raised |-> "none", startAt |-> NoIdx,
     initP |-> 0, notified |-> <<>>, sincePause |-> NoIdx,
     earlyPause |-> "none", emitted |-> <<>>, lastCall |-> "none"]

RunEnds(h) ==
    [h EXCEPT !.seekBegan = FALSE, !.seekIter = NoIdx, !.seekNext = NoIdx,
              !.seekSince = FALSE, !.wrote = NoIdx, !.cycle = "none",
              !.cycleBucket = NoIdx, !.pending = NoIdx, !.paused = FALSE,
              !.startAt = NoIdx, !.notified = <<>>, !.sincePause = NoIdx,
              !.earlyPause = "none", !.lastCall = "none"]

\* ------------------------------------------------------------------- Init
Init ==
    /\ timestamps_set = FALSE
    /\ database_details_set = FALSE
    /\ details = NoDetails
    /\ database_cleared = FALSE
    /\ timestamps = [count |-> 0, interval |-> 0]
    /\ pause_requested = FALSE
    /\ resume_requested = FALSE
    /\ current_index = 0
    /\ last_processed_index = 0
    /\ client = 0
    /\ processed_data = NoData
    /\ points_per_upload = 0
    /\ upload_interval = 0
    /\ initialized = FALSE
    /\ conns = <<>>
    /\ wpc = "idle"
    /\ w_interval = 0
    /\ w_points = 0
    /\ w_aligned = 0
    /\ w_end = 0
    /\ w_index = 0
    /\ w_client = 0
    /\ w_chunks = 0
    /\ signal = "none"
    /\ cpc = "idle"
    /\ c_arg = 0
    /\ c_stop = FALSE
    /\ c_frame = NoFrame
    /\ runs = 0
    /\ calls = 0
    /\ gui = NoGui
    /\ hist = NoHistory

\* ----------------------------------------------------------------- worker
\* UploaderThread.run (uploader_thread.py 35-50) with single_upload False:
\* upload() returns -> finished.emit(); any exception -> error.emit(str(e)).
\* The locals of a frame are dropped (set to 0) when the frame is left.
Goto(pc) == wpc' = pc /\ signal' = signal
DropFrame == w_aligned' = 0 /\ w_end' = 0 /\ w_index' = 0 /\ w_client' = 0
DropLocals == w_interval' = 0 /\ w_points' = 0 /\ w_chunks' = 0 /\ DropFrame
\* uploader_thread.py 46-47: an exception leaves upload(), error.emit
RaiseWith(reason, h) ==
    /\ wpc' = "error" /\ signal' = reason /\ DropLocals
    /\ hist' = [RunEnds(h) EXCEPT !.emitted = Append(@, reason)]
Raise(reason) == RaiseWith(reason, hist)
\* A variant of Finish for a run() without line 44: upload() returns and
\* nothing is emitted.
FinishSilent ==
    /\ wpc' = "done" /\ signal' = "none" /\ DropLocals
    /\ hist' = RunEnds(hist)
\* uploader_thread.py 41-44: upload() returns, finished.emit
Finish ==
    /\ wpc' = "done" /\ signal' = "finished" /\ DropLocals
    /\ hist' = [RunEnds(hist) EXCEPT !.emitted = Append(@, "finished")]

\* A variant of W_InitCheck without the test of line 57: the initialization
\* is carried out again although initialized is set.
W_InitCheckAgain ==
    /\ wpc = "init"
    /\ IF ~timestamps_set \/ ~database_details_set
       THEN Raise("RuntimeError")
       ELSE IF timestamps.count <= 1 \/ timestamps.interval > w_interval
       THEN Raise("ValueError")
       ELSE Goto("open") /\ UNCHANGED <<wlocals, hist>>
    /\ UNCHANGED <<engine, others>>

\* A variant of W_InitCheck without the tests of lines 58-61.
W_InitCheckUnconfigured ==
    /\ wpc = "init"
    /\ IF initialized
       THEN Goto("reset_p") /\ UNCHANGED <<wlocals, hist>>
       ELSE IF timestamps.count <= 1 \/ timestamps.interval > w_interval
       THEN Raise("ValueError")
       ELSE Goto("open") /\ UNCHANGED <<wlocals, hist>>
    /\ UNCHANGED <<engine, others>>

\* _initialize_upload, lines 57-70: the guard and the precondition checks
W_InitCheck ==
    /\ wpc = "init"
    /\ IF initialized
       THEN Goto("reset_p") /\ UNCHANGED <<wlocals, hist>>
       ELSE IF ~timestamps_set \/ ~database_details_set
       THEN Raise("RuntimeError")
       ELSE IF timestamps.count <= 1 \/ timestamps.interval > w_interval
       THEN Raise("ValueError")
       ELSE Goto("open") /\ UNCHANGED <<wlocals, hist>>
    /\ UNCHANGED <<engine, others>>

\* lines 73-74: a new client is stored, then switch_database succeeds
W_Open ==
    /\ wpc = "open"
    /\ conns' = Append(conns, "open")
    /\ client' = Len(conns) + 1
    /\ Goto("store_ui")
    /\ UNCHANGED <<config, flags, position, processed_data, points_per_upload,
                   upload_interval, initialized, wlocals, others, hist>>

\* lines 73-74: a new client is stored, then switch_database raises
W_OpenFail ==
    /\ wpc = "open"
    /\ conns' = Append(conns, "open")
    /\ client' = Len(conns) + 1
    /\ Raise("ConnectionError")
    /\ UNCHANGED <<config, flags, position, processed_data, points_per_upload,
                   upload_interval, initialized, others>>

\* line 77
W_StoreInterval ==
    /\ wpc = "store_ui"
    /\ upload_interval' = w_interval
    /\ Goto("store_ppu")
    /\ UNCHANGED <<config, flags, position, client, processed_data,
                   points_per_upload, initialized, conns, wlocals, others,
                   hist>>

\* line 78: int(upload_interval / data_point_interval)
W_StorePoints ==
    /\ wpc = "store_ppu"
    /\ points_per_upload' = IntQuotient(w_interval, timestamps.interval)
    /\ Goto("preprocess")
    /\ hist' = [hist EXCEPT !.initP = points_per_upload']
    /\ UNCHANGED <<config, flags, position, client, processed_data,
                   upload_interval, initialized, conns, wlocals, others>>

\* lines 79-81, the call: self.points_per_upload is read again for the
\* argument; range(0, n, None) raises TypeError
W_Preprocess ==
    /\ wpc = "preprocess"
    /\ IF points_per_upload = 0
       THEN Raise("TypeError")
       ELSE /\ w_points' = points_per_upload
            /\ Goto("store_data")
            /\ UNCHANGED <<w_interval, w_chunks, frame, hist>>
    /\ UNCHANGED <<engine, others>>

\* lines 79-81, the assignment of the result.  The matrix has one column per
\* timestamp (live_uploader_gui.py 265-289).
W_StoreData ==
    /\ wpc = "store_data"
    /\ processed_data' = PreprocessData(TotalPoints, w_points)
    /\ w_points' = 0
    /\ Goto("set_init")
    /\ UNCHANGED <<config, flags, position, client, points_per_upload,
                   upload_interval, initialized, conns, w_interval, w_chunks,
                   frame, others, hist>>

\* line 82
W_SetInitialized ==
    /\ wpc = "set_init"
    /\ initialized' = TRUE
    /\ Goto("reset_p")
    /\ UNCHANGED <<config, flags, position, client, processed_data,
                   points_per_upload, upload_interval, conns, wlocals, others,
                   hist>>

\* A variant of W_ResetPause that leaves pause_requested as it is.
W_ResetPauseKept ==
    /\ wpc = "reset_p"
    /\ database_cleared' = FALSE
    /\ Goto("reset_r")
    /\ hist' = [hist EXCEPT !.reinit = FALSE]
    /\ UNCHANGED <<timestamps_set, database_details_set, timestamps, details,
                   flags, position, session, wlocals, others>>

\* upload(), lines 88-90 (the warning and database_cleared = False), and
\* _perform_live_upload, line 107
W_ResetPause ==
    /\ wpc = "reset_p"
    /\ database_cleared' = FALSE
    /\ pause_requested' = FALSE
    /\ Goto("reset_r")
    /\ hist' = [hist EXCEPT !.reinit = FALSE]
    /\ UNCHANGED <<timestamps_set, database_details_set, timestamps, details,
                   resume_requested, position, session, wlocals, others>>

\* line 108
W_ResetResume ==
    /\ wpc = "reset_r"
    /\ resume_requested' = FALSE
    /\ Goto("loop")
    /\ UNCHANGED <<config, pause_requested, position, session, wlocals,
                   others, hist>>

\* _process_uploads, line 141; leaving the loop returns from upload()
W_LoopTest ==
    /\ wpc = "loop"
    /\ IF current_index < TotalPoints
       THEN Goto("chk_p") /\ UNCHANGED <<wlocals, hist>>
       ELSE Finish
    /\ UNCHANGED <<engine, others>>

\* A variant of W_CheckPause without the test of line 142.
W_CheckPauseSkipped ==
    /\ wpc = "chk_p"
    /\ Goto("window")
    /\ UNCHANGED <<engine, wlocals, others, hist>>

\* line 142, the read of pause_requested
W_CheckPause ==
    /\ wpc = "chk_p"
    /\ Goto(IF pause_requested THEN "chk_r" ELSE "window")
    /\ UNCHANGED <<engine, wlocals, others, hist>>

\* line 142, the read of resume_requested
W_CheckResume ==
    /\ wpc = "chk_r"
    /\ Goto(IF resume_requested THEN "window" ELSE "pwait")
    /\ UNCHANGED <<engine, wlocals, others, hist>>

\* A variant of W_PauseWait in which the sleep of line 143 never returns.
W_PauseWaitForever ==
    /\ wpc = "pwait"
    /\ Goto("pwait")
    /\ UNCHANGED <<engine, wlocals, others, hist>>

\* lines 143-144
W_PauseWait ==
    /\ wpc = "pwait"
    /\ Goto(IF current_index # last_processed_index THEN "resync" ELSE "chk_p")
    /\ UNCHANGED <<engine, wlocals, others, hist>>

\* line 145
W_Resync ==
    /\ wpc = "resync"
    /\ last_processed_index' = current_index
    /\ Goto("chk_p")
    /\ UNCHANGED <<config, flags, current_index, session, wlocals, others,
                   hist>>

\* _process_single_upload, lines 153-161: the window of the current position.
\* Arithmetic on points_per_upload = None and len(None) raise TypeError.
\* A data_index outside processed_data skips to the sleep of line 149.
W_Window ==
    /\ wpc = "window"
    /\ IF points_per_upload = 0 \/ processed_data = NoData
       THEN Raise("TypeError")
       ELSE LET aligned == AlignedPosition(current_index, points_per_upload)
                index == DataIndex(aligned, points_per_upload)
            IN /\ hist' = [hist EXCEPT
                             !.seekBegan = FALSE, !.seekIter = NoIdx,
                             !.seekNext = hist.seekIter,
                             !.seekSince = FALSE, !.wrote = NoIdx,
                             !.notified = <<>>,
                             !.cycle = IF @ = "pausing" THEN "none" ELSE @]
               /\ UNCHANGED <<w_interval, w_points, w_chunks, w_client>>
               /\ IF index < Len(processed_data)
                  THEN /\ w_aligned' = aligned
                       /\ w_end' = EndIndex(aligned, points_per_upload,
                                            TotalPoints)
                       /\ w_index' = index
                       /\ Goto("notify")
                  ELSE /\ w_aligned' = 0 /\ w_end' = 0 /\ w_index' = 0
                       /\ Goto("sleep")
    /\ UNCHANGED <<engine, others>>

\* A variant of W_Notify that gives the handler the position instead of
\* the start of the window.
W_NotifyPosition ==
    /\ wpc = "notify"
    /\ Goto("write")
    /\ hist' = [hist EXCEPT !.notified = Append(@, <<current_index, w_end>>)]
    /\ UNCHANGED <<engine, wlocals, others>>

\* line 162: progress_handler(aligned_position, end_index)
W_Notify ==
    /\ wpc = "notify"
    /\ Goto("write")
    /\ hist' = [hist EXCEPT !.notified = Append(@, <<w_aligned, w_end>>)]
    /\ UNCHANGED <<engine, wlocals, others>>

\* lines 164-173 up to the call of write_points: processed_data[data_index]
\* raises TypeError on None, self.client.write_points AttributeError on None
W_WriteBegin ==
    /\ wpc = "write"
    /\ IF processed_data = NoData
       THEN Raise("TypeError")
       ELSE IF client = 0
       THEN Raise("AttributeError")
       ELSE /\ w_client' = client
            /\ Goto("writing")
            /\ hist' = [hist EXCEPT !.lateWrite = @ \/ hist.cancelled,
                                    !.sincePause = IF @ < 0 THEN @
                                                   ELSE @ + 1]
            /\ UNCHANGED <<w_interval, w_points, w_chunks, w_aligned, w_end, w_index>>
    /\ UNCHANGED <<engine, others>>

\* line 329: write_points returns
W_WriteOk ==
    /\ wpc = "writing"
    /\ Goto("guard")
    /\ w_client' = 0
    /\ hist' = [hist EXCEPT !.wrote = w_index, !.pending = NoIdx,
                            !.seekNext = NoIdx, !.startAt = NoIdx,
                            !.earlyPause = "none",
                            !.written = IF calls = 0 /\ runs = 1
                                        THEN @ + 1 ELSE 0,
                            !.cycle = IF @ = "resumed" THEN "none" ELSE @,
                            !.cycleBucket = IF hist.cycle = "resumed"
                                            THEN NoIdx ELSE @]
    /\ UNCHANGED <<engine, w_interval, w_points, w_chunks, w_aligned, w_end,
                   w_index, others>>

\* A variant of W_WriteFail in which the failed write is attempted again
\* instead of leaving upload().
W_WriteFailRetried ==
    /\ wpc = "writing"
    /\ Goto("write")
    /\ w_client' = 0
    /\ hist' = [hist EXCEPT !.failed = w_client, !.writeFailed = TRUE]
    /\ UNCHANGED <<engine, w_interval, w_points, w_chunks, w_aligned, w_end,
                   w_index, others>>

\* line 329: write_points raises; the exception leaves upload()
W_WriteFail ==
    /\ wpc = "writing"
    /\ RaiseWith("WriteError", [hist EXCEPT !.failed = w_client,
                                           !.writeFailed = TRUE])
    /\ UNCHANGED <<engine, others>>

\* line 175
W_Guard ==
    /\ wpc = "guard"
    /\ IF current_index = last_processed_index
       THEN Goto("adv_cur") /\ UNCHANGED frame
       ELSE Goto("sleep") /\ DropFrame
    /\ UNCHANGED <<engine, w_interval, w_points, w_chunks, others, hist>>

\* A variant of W_AdvanceCurrent that advances by one data point instead of
\* to the end of the window.
W_AdvanceCurrentByOne ==
    /\ wpc = "adv_cur"
    /\ current_index' = current_index + 1
    /\ Goto("adv_last")
    /\ UNCHANGED <<config, flags, last_processed_index, session, wlocals,
                   others, hist>>

\* line 176
W_AdvanceCurrent ==
    /\ wpc = "adv_cur"
    /\ current_index' = w_end
    /\ Goto("adv_last")
    /\ UNCHANGED <<config, flags, last_processed_index, session, wlocals,
                   others, hist>>

\* line 177
W_AdvanceLast ==
    /\ wpc = "adv_last"
    /\ last_processed_index' = current_index
    /\ Goto("sleep")
    /\ DropFrame
    /\ UNCHANGED <<config, flags, current_index, session, w_interval,
                   w_points, w_chunks, others, hist>>

\* line 149 and _sleep_until_next_interval 302-308: self.upload_interval is
\* read for the call (None - float raises TypeError); the number of 40 ms
\* chunks depends on the time the write took
W_Sleep ==
    /\ wpc = "sleep"
    /\ IF upload_interval = 0
       THEN Raise("TypeError")
       ELSE /\ \E n \in 0..MaxChunks :
                  /\ w_chunks' = n
                  /\ Goto(IF n = 0 THEN "loop" ELSE "poll_p")
            /\ UNCHANGED <<w_interval, w_points, frame, hist>>
    /\ UNCHANGED <<engine, others>>

\* lines 311-312, the read of pause_requested
W_PollPause ==
    /\ wpc = "poll_p"
    /\ Goto(IF pause_requested THEN "poll_r" ELSE "chunk")
    /\ UNCHANGED <<engine, wlocals, others, hist>>

\* lines 311-312, the read of resume_requested
W_PollResume ==
    /\ wpc = "poll_r"
    /\ Goto(IF resume_requested THEN "chunk" ELSE "poll_wait")
    /\ UNCHANGED <<engine, wlocals, others, hist>>

\* line 313
W_PollWait ==
    /\ wpc = "poll_wait"
    /\ Goto("poll_p")
    /\ UNCHANGED <<engine, wlocals, others, hist>>

\* line 314, and 316-317 after the last chunk
W_Chunk ==
    /\ wpc = "chunk"
    /\ w_chunks' = w_chunks - 1
    /\ Goto(IF w_chunks' = 0 THEN "loop" ELSE "poll_p")
    /\ UNCHANGED <<engine, w_interval, w_points, frame, others, hist>>

\* ---------------------------------------------------------------- control
PreAdvancePcs == {"notify", "write", "writing", "guard"}
InLoopPcs == EntryPcs \cup CheckPcs \cup {"window"} \cup IterPcs \cup SleepPcs
CanCall == cpc = "idle" /\ calls < MaxCalls
\* the history of a control call: the fields of the current run change only
\* while a worker runs, and a call during the re-initialisation ends "reinit"
Called(h, update) ==
    IF Running
    THEN [update EXCEPT !.reinit = FALSE, !.written = 0, !.startAt = NoIdx]
    ELSE h

\* set_timestamps, lines 205-209.  The data is loaded once per engine
\* (unload_data replaces the engine), so count and interval are set once.
SetTimestamps(n, d) ==
    /\ cpc = "idle" /\ ~Running /\ ~timestamps_set
    /\ timestamps_set' = TRUE
    /\ timestamps' = [count |-> n, interval |-> d]
    /\ UNCHANGED <<database_details_set, details, database_cleared, flags,
                   position, session, worker, others, hist>>

\* set_actual_timestamps, lines 179-181: the list given is stored as it is
\* (n instants, d apart)
SetActualTimestamps(n, d) ==
    /\ cpc = "idle" /\ ~Running
    /\ timestamps_set' = TRUE
    /\ timestamps' = [count |-> n, interval |-> d]
    /\ UNCHANGED <<database_details_set, details, database_cleared, flags,
                   position, session, worker, others, hist>>

\* a call of the configuration interface returns, or raises exc
Returns(name) == hist' = [hist EXCEPT !.call = name, !.raised = "none"]
Raises(name, exc) == hist' = [hist EXCEPT !.call = name, !.raised = exc]

\* lines 233-236: isinstance(x, str) and x.strip()
ValidName(x) == x \notin {"", " "}
\* line 237: isinstance(port, int) and 1 <= port <= 65535
ValidPort(port) == port \in 1..65535
ValidDetails(d) ==
    /\ ValidName(d.database_name) /\ ValidName(d.measurement_name)
    /\ ValidName(d.host)
    /\ ValidPort(d.port)

\* A variant of SetDatabaseDetailsCall that stores the details before the
\* connection is probed.
SetDatabaseDetailsCallEager(d, probe) ==
    /\ cpc = "idle" /\ ~Running
    /\ IF ~ValidDetails(d)
       THEN /\ Raises("set_database_details", "ValueError")
            /\ UNCHANGED <<database_details_set, details>>
       ELSE /\ database_details_set' = TRUE
            /\ details' = d
            /\ IF probe = "ok"
               THEN Returns("set_database_details")
               ELSE Raises("set_database_details",
                           IF probe = "InfluxDBClientError"
                           THEN "ConnectionError" ELSE probe)
    /\ UNCHANGED <<timestamps_set, timestamps, database_cleared, flags,
                   position, session, worker, others>>

\* set_database_details, lines 233-258, called with the details d; probe is
\* what the client constructor and switch_database of lines 245-247 do:
\* "ok" or the exception they raise.  InfluxDBClientError is re-raised as
\* ConnectionError, any other exception leaves the call as it is; the
\* probe's client is closed in either case.
SetDatabaseDetailsCall(d, probe) ==
    /\ cpc = "idle" /\ ~Running
    /\ IF ~ValidDetails(d)
       THEN /\ Raises("set_database_details", "ValueError")
            /\ UNCHANGED <<database_details_set, details>>
       ELSE IF probe # "ok"
       THEN /\ Raises("set_database_details",
                      IF probe = "InfluxDBClientError"
                      THEN "ConnectionError" ELSE probe)
            /\ UNCHANGED <<database_details_set, details>>
       ELSE /\ database_details_set' = TRUE
            /\ details' = d
            /\ Returns("set_database_details")
    /\ UNCHANGED <<timestamps_set, timestamps, database_cleared, flags,
                   position, session, worker, others>>

\* the call that configures the engine, made once (the GUI's database
\* dialog, upload.py 50)
SetDatabaseDetails ==
    ~database_details_set /\ SetDatabaseDetailsCall(SomeDetails, "ok")

\* clear_measurements, lines 272-280; outcome is what the client
\* constructor, switch_database and query do: "ok" or the exception they
\* raise.  The except clause of line 279 names the builtin ConnectionError
\* and InfluxDBClientError.
ClearMeasurements(outcome) ==
    /\ cpc = "idle" /\ ~Running
    /\ IF ~database_details_set
       THEN /\ Raises("clear_measurements", "RuntimeError")
            /\ UNCHANGED database_cleared
       ELSE IF outcome = "ok"
       THEN /\ database_cleared' = TRUE
            /\ Returns("clear_measurements")
       ELSE IF outcome \in {"ConnectionError", "InfluxDBClientError"}
       THEN /\ Returns("clear_measurements")
            /\ UNCHANGED database_cleared
       ELSE /\ Raises("clear_measurements", outcome)
            /\ UNCHANGED database_cleared
    /\ UNCHANGED <<timestamps_set, database_details_set, timestamps, details,
                   flags, position, session, worker, others>>

\* toggle_play, live_uploader_gui.py 339-359: a new UploaderThread is started
\* only when none is running; run() calls upload(datastream, u, callback)
StartThread(u) ==
    /\ cpc = "idle" /\ ~Running
    /\ runs' = runs + 1
    /\ wpc' = "init"
    /\ signal' = "none"
    /\ w_interval' = u
    /\ hist' = [NoHistory EXCEPT !.failed = hist.failed,
                                 !.reinit = hist.cleaned,
                                 !.startAt = current_index,
                                 !.initP = hist.initP]
    /\ UNCHANGED <<engine, w_points, w_chunks, frame, control, calls, gui>>

\* the first thread started on the engine, and a later one
Start(u) == runs = 0 /\ StartThread(u)
Restart(u) == runs \in 1..(MaxRuns - 1) /\ StartThread(u)

\* pause_upload, line 48 (UploaderThread.pause, called while isRunning())
PauseBegin ==
    /\ CanCall /\ Running
    /\ calls' = calls + 1
    /\ pause_requested' = TRUE
    /\ cpc' = "pause_2"
    /\ hist' = Called(hist, [hist EXCEPT
                  !.cycle = IF wpc \in SleepPcs /\ ~hist.seekSince
                               /\ hist.wrote # NoIdx
                            THEN "pausing" ELSE "none",
                  !.cycleBucket = IF wpc \in SleepPcs /\ ~hist.seekSince
                                  THEN hist.wrote ELSE NoIdx,
                  !.sincePause = IF @ >= 0 THEN @
                                 ELSE IF wpc \in LoopPcs
                                 THEN Pausing ELSE NoIdx,
                  !.earlyPause = IF wpc \in PreEntryPcs
                                 THEN "pause" ELSE "none",
                  !.lastCall = IF LoopStarted THEN "pausing" ELSE "early"])
    /\ UNCHANGED <<config, resume_requested, position, session, worker,
                   c_arg, c_stop, c_frame, runs, gui>>

\* pause_upload, line 49; inside stop() the call of cleanup() follows
PauseEnd ==
    /\ cpc = "pause_2"
    /\ resume_requested' = FALSE
    /\ cpc' = IF c_stop THEN "cl_test" ELSE "idle"
    /\ hist' = Called(hist, [hist EXCEPT
                  !.cycle = IF @ = "pausing" /\ wpc \in SleepPcs /\ ~c_stop
                            THEN "paused" ELSE "none",
                  !.cycleBucket = IF hist.cycle = "pausing"
                                     /\ wpc \in SleepPcs /\ ~c_stop
                                  THEN @ ELSE NoIdx,
                  !.paused = ~c_stop /\ wpc \notin {"window", "notify",
                                                    "write", "writing"},
                  !.sincePause = IF @ >= 0 THEN @
                                 ELSE IF @ = Pausing /\ wpc \in LoopPcs
                                 THEN 0 ELSE NoIdx,
                  !.lastCall = IF @ = "pausing" THEN "pause" ELSE "none"])
    /\ UNCHANGED <<config, pause_requested, position, session, worker,
                   c_arg, c_stop, c_frame, counts>>

\* resume_upload, line 52 (UploaderThread.resume, called while isRunning())
ResumeBegin ==
    /\ CanCall /\ Running
    /\ calls' = calls + 1
    /\ resume_requested' = TRUE
    /\ cpc' = "resume_2"
    /\ hist' = Called(hist, [hist EXCEPT
                  !.cycle = IF @ = "paused" THEN "resumed" ELSE "none",
                  !.cycleBucket = IF hist.cycle = "paused" THEN @ ELSE NoIdx,
                  !.paused = FALSE, !.sincePause = NoIdx,
                  !.earlyPause = "none",
                  !.lastCall = IF LoopStarted THEN "resuming" ELSE "early"])
    /\ UNCHANGED <<config, pause_requested, position, session, worker,
                   c_arg, c_stop, c_frame, runs, gui>>

\* A variant of resume_upload without line 53.
ResumeEndPauseKept ==
    /\ cpc = "resume_2"
    /\ cpc' = "idle"
    /\ hist' = [hist EXCEPT
                  !.lastCall = IF @ = "resuming" THEN "resume" ELSE "none"]
    /\ UNCHANGED <<config, flags, position, session, worker,
                   c_arg, c_stop, c_frame, counts>>

\* resume_upload, line 53
ResumeEnd ==
    /\ cpc = "resume_2"
    /\ pause_requested' = FALSE
    /\ cpc' = "idle"
    /\ hist' = [hist EXCEPT
                  !.lastCall = IF @ = "resuming" THEN "resume" ELSE "none"]
    /\ UNCHANGED <<config, resume_requested, position, session, worker,
                   c_arg, c_stop, c_frame, counts>>

\* current_index setter, line 43 (UploaderThread.set_index): any integer is
\* stored as it is
SetIndexBegin(k) ==
    /\ CanCall /\ timestamps_set
    /\ calls' = calls + 1
    /\ current_index' = k
    /\ cpc' = "seek_2"
    /\ c_arg' = k
    /\ hist' = Called(hist, [hist EXCEPT
                  !.seekBegan = wpc \in PreAdvancePcs,
                  !.seekIter = NoIdx, !.seekNext = NoIdx,
                  !.seekSince = TRUE,
                  !.cycle = "none", !.cycleBucket = NoIdx,
                  !.pending = NoIdx])
    /\ UNCHANGED <<config, flags, last_processed_index, session, worker,
                   c_stop, c_frame, runs, gui>>

\* the setter called by the GUI: the slider keeps the index in 0 .. count-1
\* (live_uploader_gui.py 405-419)
SeekBegin(k) == k \in 0..(TotalPoints - 1) /\ SetIndexBegin(k)

\* current_index setter, line 45
SeekEnd ==
    /\ cpc = "seek_2"
    /\ last_processed_index' = c_arg
    /\ cpc' = "idle"
    /\ c_arg' = 0
    /\ hist' = Called(hist, [hist EXCEPT
                  !.seekBegan = FALSE,
                  !.seekIter = IF hist.seekBegan /\ wpc \in PreAdvancePcs
                               THEN c_arg ELSE NoIdx,
                  !.seekSince = TRUE,
                  !.pending = IF wpc \in CheckPcs \cup SleepPcs
                              THEN c_arg ELSE NoIdx])
    /\ UNCHANGED <<config, flags, current_index, session, worker,
                   c_stop, c_frame,
                   counts>>

\* UploaderThread.stop, uploader_thread.py 60-64: isRunning(), then pause()
\* (its first assignment here), quit() and cleanup()
StopBegin ==
    /\ CanCall /\ Running
    /\ calls' = calls + 1
    /\ pause_requested' = TRUE
    /\ cpc' = "pause_2"
    /\ c_stop' = TRUE
    /\ hist' = Called(hist, [hist EXCEPT
                  !.cycle = "none", !.cycleBucket = NoIdx,
                  !.earlyPause = IF wpc \in PreEntryPcs
                                 THEN "stop" ELSE "none",
                  !.lastCall = IF LoopStarted THEN "pausing" ELSE "early"])
    /\ UNCHANGED <<config, resume_requested, position, session, worker,
                   c_arg, c_frame, runs, gui>>

\* a call of cleanup() by the control thread
CleanupCall ==
    /\ CanCall
    /\ calls' = calls + 1
    /\ cpc' = "cl_test"
    /\ hist' = [Called(hist, [hist EXCEPT !.cycle = "none",
                                          !.cycleBucket = NoIdx])
                EXCEPT !.cleaning = (wpc = "error" /\ signal = "WriteError"),
                       !.held = IF wpc = "error" /\ signal = "WriteError"
                                THEN client ELSE 0]
    /\ UNCHANGED <<engine, worker, c_arg, c_stop, c_frame, runs, gui>>

\* cleanup, line 333
CleanupTest ==
    /\ cpc = "cl_test"
    /\ cpc' = IF client # 0 THEN "cl_close" ELSE "cl_init"
    /\ UNCHANGED <<engine, worker, c_arg, c_stop, c_frame, counts, hist>>

\* line 334
CleanupClose ==
    /\ cpc = "cl_close"
    /\ conns' = [conns EXCEPT ![client] = "closed"]
    /\ cpc' = "cl_none"
    /\ UNCHANGED <<config, flags, position, client, processed_data,
                   points_per_upload, upload_interval, initialized, worker,
                   c_arg, c_stop, c_frame, counts, hist>>

\* line 335
CleanupClient ==
    /\ cpc = "cl_none"
    /\ client' = 0
    /\ cpc' = "cl_init"
    /\ UNCHANGED <<config, flags, position, processed_data, points_per_upload,
                   upload_interval, initialized, conns, worker, c_arg,
                   c_stop, c_frame,
                   counts, hist>>

\* A variant of CleanupInitialized that leaves the initialized flag set.
CleanupInitializedKept ==
    /\ cpc = "cl_init"
    /\ cpc' = "cl_data"
    /\ UNCHANGED <<engine, worker, c_arg, c_stop, c_frame, counts, hist>>

\* line 336
CleanupInitialized ==
    /\ cpc = "cl_init"
    /\ initialized' = FALSE
    /\ cpc' = "cl_data"
    /\ UNCHANGED <<config, flags, position, client, processed_data,
                   points_per_upload, upload_interval, conns, worker, c_arg,
                   c_stop, c_frame, counts, hist>>

\* line 337
CleanupData ==
    /\ cpc = "cl_data"
    /\ processed_data' = NoData
    /\ cpc' = "cl_ppu"
    /\ UNCHANGED <<config, flags, position, client, points_per_upload,
                   upload_interval, initialized, conns, worker, c_arg,
                   c_stop, c_frame,
                   counts, hist>>

\* line 338
CleanupPoints ==
    /\ cpc = "cl_ppu"
    /\ points_per_upload' = 0
    /\ cpc' = "cl_ui"
    /\ UNCHANGED <<config, flags, position, client, processed_data,
                   upload_interval, initialized, conns, worker, c_arg,
                   c_stop, c_frame,
                   counts, hist>>

\* line 339; cleanup() and, inside stop(), stop() return
CleanupInterval ==
    /\ cpc = "cl_ui"
    /\ upload_interval' = 0
    /\ cpc' = "idle"
    /\ c_stop' = FALSE
    /\ hist' = [hist EXCEPT
                  !.cancelled = @ \/ wpc \in InLoopPcs,
                  !.cleaning = FALSE,
                  !.cleaned = hist.cleaning]
    /\ UNCHANGED <<config, flags, position, client, processed_data,
                   points_per_upload, initialized, conns, worker, c_arg,
                   c_frame, counts>>

\* upload_single_point on the control thread (_move_to_index,
\* live_uploader_gui.py 431, passes no callback), lines 96-97 and 104: a
\* return when the engine is not initialized, the call of
\* _process_single_upload otherwise
StepCall ==
    /\ CanCall
    /\ calls' = calls + 1
    /\ IF ~initialized
       THEN /\ cpc' = "idle"
            /\ hist' = [Called(hist, hist) EXCEPT
                          !.step = "noop", !.stepPos = NoIdx,
                          !.stepWrites = 0]
       ELSE /\ cpc' = "sp_window"
            /\ hist' = [Called(hist, hist) EXCEPT
                          !.step = "called", !.stepPos = NoIdx,
                          !.stepWrites = 0]
    /\ UNCHANGED <<engine, worker, c_arg, c_stop, c_frame, runs, gui>>

\* the step returns or raises: its frame is gone
StepLeaves(how) ==
    /\ cpc' = "idle"
    /\ c_frame' = NoFrame
    /\ hist' = [hist EXCEPT !.step = how]

\* A variant of SP_Window without the test of line 161: a bucket index
\* outside processed_data raises IndexError at line 167.
SP_WindowUnchecked ==
    /\ cpc = "sp_window"
    /\ IF points_per_upload = 0 \/ processed_data = NoData
       THEN StepLeaves("raised")
       ELSE LET aligned == AlignedPosition(current_index, points_per_upload)
                index == DataIndex(aligned, points_per_upload)
            IN IF index < Len(processed_data)
               THEN /\ c_frame' =
                          [aligned |-> aligned,
                           end |-> EndIndex(aligned, points_per_upload,
                                            TotalPoints),
                           index |-> index]
                    /\ cpc' = "sp_notify"
                    /\ hist' = [hist EXCEPT !.step = "running",
                                            !.stepPos = current_index]
               ELSE /\ cpc' = "idle"
                    /\ c_frame' = NoFrame
                    /\ hist' = [hist EXCEPT !.step = "raised",
                                            !.stepPos = current_index]
    /\ UNCHANGED <<engine, worker, c_arg, c_stop, counts>>

\* _process_single_upload, lines 153-161, in the control thread
SP_Window ==
    /\ cpc = "sp_window"
    /\ IF points_per_upload = 0 \/ processed_data = NoData
       THEN StepLeaves("raised")
       ELSE LET aligned == AlignedPosition(current_index, points_per_upload)
                index == DataIndex(aligned, points_per_upload)
            IN IF index < Len(processed_data)
               THEN /\ c_frame' =
                          [aligned |-> aligned,
                           end |-> EndIndex(aligned, points_per_upload,
                                            TotalPoints),
                           index |-> index]
                    /\ cpc' = "sp_notify"
                    /\ hist' = [hist EXCEPT !.step = "running",
                                            !.stepPos = current_index]
               ELSE /\ cpc' = "idle"
                    /\ c_frame' = NoFrame
                    /\ hist' = [hist EXCEPT !.step = "empty",
                                            !.stepPos = current_index]
    /\ UNCHANGED <<engine, worker, c_arg, c_stop, counts>>

\* line 162: progress_handler(aligned_position, end_index)
SP_Notify ==
    /\ cpc = "sp_notify"
    /\ cpc' = "sp_write"
    /\ UNCHANGED <<engine, worker, c_arg, c_stop, c_frame, counts, hist>>

\* lines 164-173 up to the call of write_points
SP_WriteBegin ==
    /\ cpc = "sp_write"
    /\ IF processed_data = NoData \/ client = 0
       THEN StepLeaves("raised")
       ELSE /\ cpc' = "sp_writing"
            /\ c_frame' = c_frame
            /\ hist' = [hist EXCEPT !.stepWrites = @ + 1]
    /\ UNCHANGED <<engine, worker, c_arg, c_stop, counts>>

\* line 329: write_points returns
SP_WriteOk ==
    /\ cpc = "sp_writing"
    /\ cpc' = "sp_guard"
    /\ UNCHANGED <<engine, worker, c_arg, c_stop, c_frame, counts, hist>>

\* line 329: write_points raises; the exception leaves upload_single_point
SP_WriteFail ==
    /\ cpc = "sp_writing"
    /\ StepLeaves("raised")
    /\ UNCHANGED <<engine, worker, c_arg, c_stop, counts>>

\* line 175
SP_Guard ==
    /\ cpc = "sp_guard"
    /\ IF current_index = last_processed_index
       THEN cpc' = "sp_adv_cur" /\ UNCHANGED <<c_frame, hist>>
       ELSE StepLeaves("returned")
    /\ UNCHANGED <<engine, worker, c_arg, c_stop, counts>>

\* line 176
SP_AdvanceCurrent ==
    /\ cpc = "sp_adv_cur"
    /\ current_index' = c_frame.end
    /\ cpc' = "sp_adv_last"
    /\ UNCHANGED <<config, flags, last_processed_index, session, worker,
                   c_arg, c_stop, c_frame, counts, hist>>

\* A variant of SP_AdvanceLast that goes on to the next window, as the
\* loop of _process_uploads does, instead of returning.
SP_AdvanceLastLoops ==
    /\ cpc = "sp_adv_last"
    /\ last_processed_index' = current_index
    /\ cpc' = "sp_window"
    /\ UNCHANGED <<config, flags, current_index, session, worker,
                   c_arg, c_stop, c_frame, counts, hist>>

\* line 177, and the return of upload_single_point
SP_AdvanceLast ==
    /\ cpc = "sp_adv_last"
    /\ last_processed_index' = current_index
    /\ StepLeaves("returned")
    /\ UNCHANGED <<config, flags, current_index, session, worker,
                   c_arg, c_stop, counts>>

\* ------------------------------------------------------------------- Next
\* One worker thread and every call of the control thread.
Next ==
    \/ W_InitCheck \/ W_Open \/ W_OpenFail \/ W_StoreInterval
    \/ W_StorePoints \/ W_Preprocess \/ W_StoreData \/ W_SetInitialized
    \/ W_ResetPause \/ W_ResetResume \/ W_LoopTest
    \/ W_CheckPause \/ W_CheckResume \/ W_PauseWait \/ W_Resync
    \/ W_Window \/ W_Notify \/ W_WriteBegin \/ W_WriteOk \/ W_WriteFail
    \/ W_Guard \/ W_AdvanceCurrent \/ W_AdvanceLast
    \/ W_Sleep \/ W_PollPause \/ W_PollResume \/ W_PollWait \/ W_Chunk
    \/ \E n \in 1..MaxPoints, d \in 1..MaxInterval : SetTimestamps(n, d)
    \/ SetDatabaseDetails
    \/ \E u \in 1..MaxInterval : Start(u)
    \/ PauseBegin \/ PauseEnd \/ ResumeBegin \/ ResumeEnd
    \/ \E k \in 0..(MaxPoints - 1) : SeekBegin(k)
    \/ SeekEnd
    \/ StopBegin
    \/ CleanupCall \/ CleanupTest \/ CleanupClose \/ CleanupClient
    \/ CleanupInitialized \/ CleanupData \/ CleanupPoints \/ CleanupInterval

Spec == Init /\ [][Next]_vars

\* Sessions: threads started one after another on the same engine, with
\* cleanup() and stop() as the control calls.
NextSession ==
    \/ W_InitCheck \/ W_Open \/ W_OpenFail \/ W_StoreInterval
    \/ W_StorePoints \/ W_Preprocess \/ W_StoreData \/ W_SetInitialized
    \/ W_ResetPause \/ W_ResetResume \/ W_LoopTest
    \/ W_CheckPause \/ W_CheckResume \/ W_PauseWait
    \/ W_Window \/ W_Notify \/ W_WriteBegin \/ W_WriteOk \/ W_WriteFail
    \/ W_Guard \/ W_AdvanceCurrent \/ W_AdvanceLast
    \/ W_Sleep \/ W_PollPause \/ W_PollResume \/ W_PollWait \/ W_Chunk
    \/ \E n \in 1..MaxPoints, d \in 1..MaxInterval : SetTimestamps(n, d)
    \/ SetDatabaseDetails
    \/ \E u \in 1..MaxInterval : Start(u)
    \/ \E u \in 1..MaxInterval : Restart(u)
    \/ PauseEnd
    \/ StopBegin
    \/ CleanupCall \/ CleanupTest \/ CleanupClose \/ CleanupClient
    \/ CleanupInitialized \/ CleanupData \/ CleanupPoints \/ CleanupInterval

SpecSession == Init /\ [][NextSession]_vars

\* Progress: the worker thread keeps being scheduled and every sleep returns
\* (weak fairness of the worker's steps), and a control call that has begun
\* runs to its end.  The control calls are pause, resume and seek.
Worker ==
    \/ W_InitCheck \/ W_Open \/ W_OpenFail \/ W_StoreInterval
    \/ W_StorePoints \/ W_Preprocess \/ W_StoreData \/ W_SetInitialized
    \/ W_ResetPause \/ W_ResetResume \/ W_LoopTest
    \/ W_CheckPause \/ W_CheckResume \/ W_PauseWait \/ W_Resync
    \/ W_Window \/ W_Notify \/ W_WriteBegin \/ W_WriteOk \/ W_WriteFail
    \/ W_Guard \/ W_AdvanceCurrent \/ W_AdvanceLast
    \/ W_Sleep \/ W_PollPause \/ W_PollResume \/ W_PollWait \/ W_Chunk

NextLive ==
    \/ Worker
    \/ \E n \in 1..MaxPoints, d \in 1..MaxInterval : SetTimestamps(n, d)
    \/ SetDatabaseDetails
    \/ \E u \in 1..MaxInterval : Start(u)
    \/ PauseBegin \/ PauseEnd \/ ResumeBegin \/ ResumeEnd
    \/ \E k \in 0..(MaxPoints - 1) : SeekBegin(k)
    \/ SeekEnd

SpecLive ==
    /\ Init /\ [][NextLive]_vars
    /\ WF_vars(Worker)
    /\ WF_vars(PauseEnd) /\ WF_vars(ResumeEnd) /\ WF_vars(SeekEnd)

\* The current_index setter on its own: it is given every integer of
\* SeekInputs, with no worker started.
SeekInputs == (0 - 1)..MaxPoints
NextSetter ==
    \/ \E n \in 1..MaxPoints, d \in 1..MaxInterval : SetTimestamps(n, d)
    \/ \E k \in SeekInputs : SetIndexBegin(k)
    \/ SeekEnd

SpecSetter == Init /\ [][NextSetter]_vars

\* The cadence computation: _initialize_upload run by a thread that has just
\* been started on a configured engine, for every timestamp spacing and every
\* upload interval of 1..MaxTicks units.
InitCadence ==
    /\ timestamps_set = TRUE
    /\ database_details_set = TRUE
    /\ details = SomeDetails
    /\ database_cleared = FALSE
    /\ timestamps \in [count : 2..MaxPoints, interval : 1..MaxTicks]
    /\ pause_requested = FALSE
    /\ resume_requested = FALSE
    /\ current_index = 0
    /\ last_processed_index = 0
    /\ client = 0
    /\ processed_data = NoData
    /\ points_per_upload = 0
    /\ upload_interval = 0
    /\ initialized = FALSE
    /\ conns = <<>>
    /\ wpc = "init"
    /\ w_interval \in 1..MaxTicks
    /\ w_points = 0
    /\ w_aligned = 0
    /\ w_end = 0
    /\ w_index = 0
    /\ w_client = 0
    /\ w_chunks = 0
    /\ signal = "none"
    /\ cpc = "idle"
    /\ c_arg = 0
    /\ c_stop = FALSE
    /\ c_frame = NoFrame
    /\ runs = 1
    /\ calls = 0
    /\ gui = NoGui
    /\ hist = NoHistory

NextCadence ==
    \/ W_InitCheck \/ W_Open \/ W_OpenFail \/ W_StoreInterval
    \/ W_StorePoints \/ W_Preprocess \/ W_StoreData \/ W_SetInitialized

SpecCadence == InitCadence /\ [][NextCadence]_vars

\* ----------------------------------------------------------------- claims

\* C1: when seek(k) begins and completes after the worker computed the window
\* of the current iteration and before the iteration's advance, the position
\* is k when the iteration finishes (the worker does not advance) and the next
\* bucket written is the one containing k.
C1_SeekDuringIterationKept ==
    /\ (wpc = "sleep" /\ hist.seekIter # NoIdx
            => current_index = hist.seekIter)
    /\ (wpc = "writing" /\ hist.seekNext # NoIdx
            => hist.seekNext \in w_aligned..(w_end - 1))

\* C2: when pause() is issued and completes during the sleep that follows the
\* write of bucket i, with no seek since that iteration began, the worker
\* begins no write before resume() is issued, and the first write after it is
\* bucket i+1.
C2_PauseResumeCycle ==
    /\ (hist.cycle = "paused" => wpc # "writing")
    /\ (hist.cycle = "resumed" /\ wpc = "writing"
            => w_index = hist.cycleBucket + 1)

\* C3: when seek(k) completes while the worker is in the pause check, the
\* pause wait or the inter-write sleep, and no other seek begins, the next
\* bucket written is the one whose window contains k.
C3_SeekGovernsNextWrite ==
    (wpc = "writing" /\ hist.pending # NoIdx)
        => hist.pending \in w_aligned..(w_end - 1)

\* C4: after a pause() has completed at a point where the running worker's
\* next pause check comes before its next write, the worker begins no write
\* until resume() is issued.
C4_PauseBeforeNextWrite == hist.paused => wpc # "writing"

\* C5: after a cleanup() that completed while the worker was inside
\* _perform_live_upload, the worker begins no write and raises no error (the
\* failure of a write already in flight apart).
C5_CancelledWorkerExitsCleanly ==
    hist.cancelled =>
        /\ ~hist.lateWrite
        /\ (wpc = "error" => signal = "WriteError")

\* C6: while the worker is inside an iteration (from the computed window to
\* the sleep computation), the connection is not closed and the handle, the
\* BucketedMatrix, points_per_upload and upload_interval are not discarded.
IterationPcs == IterPcs \cup {"sleep"}
C6_NoDiscardDuringIteration ==
    [][(wpc \in IterationPcs /\ wpc' \in IterationPcs)
          => UNCHANGED <<client, conns, processed_data, points_per_upload,
                         upload_interval>>]_vars

\* C7: when a write fails the run stops: the failing step leaves the position
\* and the mirror as they were and ends the worker with the error signal (not
\* "finished"); afterwards the worker takes no step (no further write, no
\* retry), and the position changes only through a seek.
C7_WriteFailureStopsRun ==
    /\ [](hist.writeFailed => wpc = "error" /\ signal = "WriteError")
    /\ [][(wpc = "writing" /\ hist'.writeFailed) => UNCHANGED position]_vars
    /\ [][hist.writeFailed =>
            /\ UNCHANGED worker
            /\ (current_index' # current_index => cpc' = "seek_2")]_vars

C7_WriteFailed ==
    /\ hist.writeFailed /\ wpc = "error" /\ signal = "WriteError"
    /\ current_index < TotalPoints

\* C8: a write is never issued on the connection of a write that failed: after
\* a write failure ended a run, a thread started again writes only on a
\* connection opened by a fresh _initialize_upload.
C8_NoWriteOnFailedSession == wpc = "writing" => w_client # hist.failed

\* C9: when cleanup() returns, initialized is false, there is no connection
\* handle, and processed_data, points_per_upload and upload_interval are
\* discarded.
C9_CleanupLeavesNothing ==
    [][(cpc = "cl_ui" /\ cpc' = "idle") =>
          /\ initialized' = FALSE
          /\ client' = 0
          /\ processed_data' = NoData
          /\ points_per_upload' = 0
          /\ upload_interval' = 0]_vars

\* C10: once a cleanup() called after a write error ended the run has
\* returned, initialized is false, there is no handle and the connection the
\* engine held is closed; the _initialize_upload of the next thread is not
\* skipped: it opens a new connection and, when it returns, initialized is
\* true and processed_data, points_per_upload and upload_interval are those
\* computed from the arguments of this call; it fails only on the checks of
\* lines 62-70 or on the connection.
StoredPcs == {"store_ui", "store_ppu", "preprocess", "store_data", "set_init",
              "reset_p"}
C10_CleanupThenInitialize ==
    /\ hist.cleaned =>
          /\ ~initialized /\ client = 0
          /\ processed_data = NoData
          /\ hist.held # 0 => conns[hist.held] = "closed"
    /\ hist.reinit =>
          /\ wpc = "init" => ~initialized
          /\ wpc \in StoredPcs =>
                /\ client = Len(conns) /\ client # hist.failed
                /\ conns[client] = "open"
          /\ wpc = "reset_p" =>
                /\ initialized
                /\ upload_interval = w_interval
                /\ points_per_upload =
                       IntQuotient(w_interval, timestamps.interval)
                /\ points_per_upload >= 1
                /\ processed_data =
                       PreprocessData(TotalPoints, points_per_upload)
          /\ wpc = "error" => signal \in {"ValueError", "ConnectionError"}

C10_Reinitialized ==
    /\ hist.reinit /\ wpc = "reset_p" /\ initialized
    /\ hist.failed # 0 /\ client # hist.failed
    /\ conns[hist.failed] = "closed"

\* C11: when cleanup() returns and no worker is running, the position and the
\* mirror are 0 and both pause flags are false, as after construction.
C11_CleanupResetsSession ==
    [][(cpc = "cl_ui" /\ cpc' = "idle" /\ ~Running) =>
          /\ current_index' = 0
          /\ last_processed_index' = 0
          /\ ~pause_requested'
          /\ ~resume_requested']_vars

\* C12: while initialized is true, the _initialize_upload of an upload() call
\* goes straight on to _perform_live_upload: it opens no connection and leaves
\* client, processed_data, points_per_upload, upload_interval and initialized
\* as they are, whatever upload interval the call was given.
C12_InitializeIdempotent ==
    [][(wpc = "init" /\ initialized /\ wpc' # "init") =>
          /\ wpc' = "reset_p"
          /\ UNCHANGED session]_vars

C12_InitializeSkipped ==
    /\ runs = 2 /\ wpc = "reset_p" /\ initialized
    /\ upload_interval >= 1 /\ w_interval # upload_interval
    /\ points_per_upload >= 1 /\ processed_data # NoData
    /\ client = 1 /\ Len(conns) = 1

\* C13: a step of _initialize_upload that raises at the precondition checks or
\* at the connection (before anything else was stored by the call) leaves
\* client, processed_data, points_per_upload, upload_interval and initialized
\* as they were, and opens no connection that stays open.
C13_FailedInitializeLeavesNothing ==
    [][(wpc \in {"init", "open"} /\ wpc' = "error") => UNCHANGED session]_vars

\* C14: while the timestamps or the database details have not been set, the
\* first step of upload() raises RuntimeError and changes nothing; no
\* connection has been opened, initialized is false, and the worker is never
\* past that step (so it writes nothing).
Unconfigured == ~timestamps_set \/ ~database_details_set
C14_UnconfiguredUploadFails ==
    /\ [](Unconfigured =>
            /\ ~initialized /\ client = 0 /\ conns = <<>>
            /\ wpc \in {"idle", "init", "error"}
            /\ (wpc = "error" => signal = "RuntimeError"))
    /\ [][(Unconfigured /\ wpc = "init" /\ wpc' # "init") =>
            /\ wpc' = "error" /\ signal' = "RuntimeError"
            /\ UNCHANGED engine]_vars

C14_ConfigurationError ==
    /\ wpc = "error" /\ signal = "RuntimeError"
    /\ timestamps_set /\ ~database_details_set /\ runs = 1

\* C15: _initialize_upload raises ValueError when the data point interval
\* exceeds the upload interval; otherwise, whenever initialized is true,
\* points_per_upload is the floor of upload_interval / data_point_interval
\* and is at least 1.
C15_CadenceInvariant ==
    /\ [](initialized =>
            /\ points_per_upload = upload_interval \div timestamps.interval
            /\ points_per_upload >= 1)
    /\ [][(wpc = "init" /\ timestamps.interval > w_interval /\ wpc' # "init")
            => wpc' = "error" /\ signal' = "ValueError"]_vars

\* C16: once resume() has returned, and until a pause() is issued, the worker
\* does not stay in the pause wait: it goes on to its next write, or the run
\* ends (the loop is left at position N, or an error is raised).
ResumeReturned ==
    /\ cpc = "idle" /\ Running
    /\ resume_requested /\ ~pause_requested
C16_ResumeNeverLost ==
    ResumeReturned ~> (wpc = "writing" \/ ~Running \/ pause_requested)

C16_ResumedWhileWaiting == ResumeReturned /\ wpc = "pwait"

\* C20: a started run in which no write fails and the worker is not left
\* paused for ever (every pause() is followed by a resume(); only finitely
\* many seeks are made) eventually leaves the loop and emits "finished".
C20_RunTerminates ==
    \/ <>(wpc = "done" /\ signal = "finished")
    \/ <>(wpc = "error")
    \/ <>[](wpc = "idle")
    \/ <>[](pause_requested /\ ~resume_requested)

\* C17: after a seek has returned (and with no worker running), the position
\* and the mirror are equal and lie in 0 .. N-1, whatever integer was given.
C17_SeekClamps ==
    (cpc = "idle" /\ calls > 0 /\ ~Running) =>
        /\ current_index = last_processed_index
        /\ current_index \in 0..(TotalPoints - 1)

\* C19: in the first run, as long as no control call has been made, the k-th
\* write (k = 0, 1, ...) is the write of bucket k, issued at position k * P
\* below N with the window of that bucket; when the run ends with "finished",
\* ceil(N / P) writes have been completed and the position is N.
Undisturbed == calls = 0 /\ runs = 1
C19_BucketsInOrder ==
    Undisturbed =>
        /\ wpc = "writing" =>
              /\ w_index = hist.written
              /\ current_index = w_index * points_per_upload
              /\ current_index < TotalPoints
              /\ <<w_aligned, w_end>> = processed_data[w_index + 1]
        /\ wpc = "done" =>
              /\ signal = "finished"
              /\ hist.written =
                    (TotalPoints + points_per_upload - 1) \div points_per_upload
              /\ current_index = TotalPoints

C19_AllBucketsWritten ==
    /\ Undisturbed /\ wpc = "done" /\ signal = "finished"
    /\ TotalPoints = 3 /\ points_per_upload = 2 /\ hist.written = 2

\* One engine driven by the worker and, from the control thread, by pause,
\* resume, seek and upload_single_point.
StepPcs == {"sp_window", "sp_notify", "sp_write", "sp_writing", "sp_guard",
            "sp_adv_cur", "sp_adv_last"}

SingleStep ==
    \/ StepCall \/ SP_Window \/ SP_Notify \/ SP_WriteBegin \/ SP_WriteOk
    \/ SP_WriteFail \/ SP_Guard \/ SP_AdvanceCurrent \/ SP_AdvanceLast

NextStep ==
    \/ NextLive
    \/ SingleStep

SpecStep == Init /\ [][NextStep]_vars

StepEnded == cpc = "idle" /\ hist.step \in {"empty", "returned", "raised"}

\* C18 as stated: every call of upload_single_point on an initialized
\* engine makes exactly one write.
C18_StepWritesOneBucket == StepEnded => hist.stepWrites = 1

\* C18, amended: a call of upload_single_point on an initialized engine
\* makes one write, of bucket floor(position / P) with that bucket's window
\* (which contains the position when the position is below N), if that
\* index is below the number of buckets, and no write otherwise; it passes
\* through the window, the notification, the write and the advance only,
\* and returns.  On an engine that is not initialized the call changes
\* nothing.
C18_StepWritesBucketInRange ==
    /\ [](cpc = "sp_writing" =>
            /\ hist.stepWrites = 1
            /\ c_frame.index = hist.stepPos \div points_per_upload
            /\ <<c_frame.aligned, c_frame.end>> =
                  processed_data[c_frame.index + 1]
            /\ hist.stepPos < TotalPoints =>
                  hist.stepPos \in c_frame.aligned..(c_frame.end - 1))
    /\ [](StepEnded =>
            hist.stepWrites =
               IF hist.stepPos \div points_per_upload < Len(processed_data)
               THEN 1 ELSE 0)
    /\ [][(cpc \in StepPcs) => (cpc' \in StepPcs \cup {"idle"})]_vars
    /\ [][(cpc = "sp_window" /\ cpc' = "idle")
          => UNCHANGED <<engine, worker>>]_vars
    /\ [][(StepCall /\ ~initialized)
          => cpc' = "idle" /\ UNCHANGED <<engine, worker>>]_vars

C18_SteppedInRange ==
    /\ StepEnded /\ hist.step = "returned" /\ hist.stepWrites = 1
    /\ hist.stepPos = 2 /\ TotalPoints = 3 /\ points_per_upload = 2
    /\ current_index = 3

\* _preprocess_data on its own: the call of lines 79-81 for every matrix
\* width and every bucket size of 1..MaxColumns, on an engine whose
\* _initialize_upload has reached that call.
InitPreprocess ==
    /\ timestamps_set = TRUE
    /\ database_details_set = TRUE
    /\ details = SomeDetails
    /\ database_cleared = FALSE
    /\ timestamps \in [count : 1..MaxColumns, interval : {1}]
    /\ pause_requested = FALSE
    /\ resume_requested = FALSE
    /\ current_index = 0
    /\ last_processed_index = 0
    /\ client = 1
    /\ processed_data = NoData
    /\ points_per_upload \in 1..MaxColumns
    /\ upload_interval = points_per_upload
    /\ initialized = FALSE
    /\ conns = <<"open">>
    /\ wpc = "store_data"
    /\ w_interval = upload_interval
    /\ w_points = points_per_upload
    /\ w_aligned = 0
    /\ w_end = 0
    /\ w_index = 0
    /\ w_client = 0
    /\ w_chunks = 0
    /\ signal = "none"
    /\ cpc = "idle"
    /\ c_arg = 0
    /\ c_stop = FALSE
    /\ c_frame = NoFrame
    /\ runs = 1
    /\ calls = 0
    /\ gui = NoGui
    /\ hist = NoHistory

NextPreprocess == W_StoreData \/ W_SetInitialized

SpecPreprocess == InitPreprocess /\ [][NextPreprocess]_vars

\* ceil(n / p) for n >= 0, p >= 1
CeilDiv(n, p) == (n + p - 1) \div p

\* C25: the result of _preprocess_data for N columns and bucket size P has
\* ceil(N/P) buckets, bucket i covers the columns [i*P, min((i+1)*P, N)), and
\* the last bucket has N - (ceil(N/P) - 1) * P columns, between 1 and P.
C25_PreprocessBuckets ==
    processed_data # NoData =>
        LET N == TotalPoints
            P == points_per_upload
            last == processed_data[Len(processed_data)]
        IN /\ Len(processed_data) = CeilDiv(N, P)
           /\ \A i \in 0..(Len(processed_data) - 1) :
                 processed_data[i + 1] = <<i * P, Min((i + 1) * P, N)>>
           /\ last[2] - last[1] = N - (CeilDiv(N, P) - 1) * P
           /\ last[2] - last[1] \in 1..P

C25_PartialLastBucket ==
    /\ processed_data # NoData /\ TotalPoints = 7 /\ points_per_upload = 3
    /\ processed_data = <<<<0, 3>>, <<3, 6>>, <<6, 7>>>>

\* The configuration interface on its own: set_database_details with valid
\* and invalid details and every outcome of its probe, clear_measurements
\* with every outcome of its requests, and the two timestamp setters with
\* valid and invalid arguments.  No thread is started.
NameInputs == {"", " ", "a", "b"}
PortInputs == {0, 1, 65535, 65536}
DetailInputs ==
    [database_name : NameInputs, measurement_name : {"", "a"},
     host : {" ", "a"}, port : PortInputs]
ProbeOutcomes == {"ok", "InfluxDBClientError", "ConnectionError",
                  "TimeoutError"}
ClientOutcomes == {"ok", "InfluxDBClientError", "ConnectionError",
                   "InfluxDBServerError", "TimeoutError"}
CountInputs == 0..MaxPoints
IntervalInputs == (0 - 1)..MaxInterval

NextConfig ==
    \/ \E d \in DetailInputs, probe \in ProbeOutcomes :
          SetDatabaseDetailsCall(d, probe)
    \/ \E outcome \in ClientOutcomes : ClearMeasurements(outcome)
    \/ \E n \in CountInputs, d \in IntervalInputs : SetTimestamps(n, d)
    \/ \E n \in CountInputs, d \in IntervalInputs : SetActualTimestamps(n, d)

SpecConfig == Init /\ [][NextConfig]_vars

\* C22: a call of set_database_details that fails (details that are not
\* valid, or a probe that raises) raises ValueError or the probe's error and
\* leaves database_name, measurement_name, host, port and
\* database_details_set as they were; the details in force are always the
\* ones of the last call that succeeded.
C22_FailedSetKeepsDetails ==
    /\ [][(hist'.call = "set_database_details" /\ hist'.raised # "none")
          => UNCHANGED <<details, database_details_set>>]_vars
    /\ [](IF database_details_set
          THEN ValidDetails(details) ELSE details = NoDetails)
    /\ []((hist.call = "set_database_details" /\ hist.raised = "none")
            => database_details_set)

C22_FailedAfterValid ==
    /\ database_details_set /\ details.database_name = "b"
    /\ hist.call = "set_database_details" /\ hist.raised = "ConnectionError"

\* C23: with the database details set, a call of clear_measurements returns
\* normally whatever the client's requests do, and database_cleared is true
\* only after a call whose requests succeeded.
C23_ClearNeverRaises ==
    /\ (hist.call = "clear_measurements" /\ database_details_set)
          => hist.raised = "none"
    /\ database_cleared => database_details_set

\* C24: set_timestamps called with a count below 1 or an interval that is not
\* positive, and set_actual_timestamps called with fewer than 2 instants,
\* leave timestamps_set and the timestamps as they were.
C24_SettersValidate ==
    [][/\ \A n \in CountInputs, d \in IntervalInputs :
             (SetTimestamps(n, d) /\ (n < 1 \/ d <= 0))
                => UNCHANGED <<timestamps_set, timestamps>>
       /\ \A n \in CountInputs, d \in IntervalInputs :
             (SetActualTimestamps(n, d) /\ n < 2)
                => UNCHANGED <<timestamps_set, timestamps>>]_vars

\* C26: when a thread is started with the position at k (set by a seek that
\* has completed, or 0) and no control call is made before the first write
\* of the run, that write is issued with the position still at k, for the
\* window [floor(k/P)*P, min(floor(k/P)*P + P, N)) and its bucket.
C26_FirstWindowAfterSeek ==
    (wpc = "writing" /\ hist.startAt # NoIdx) =>
        LET k == hist.startAt
            P == points_per_upload
        IN /\ current_index = k
           /\ w_aligned = (k \div P) * P
           /\ w_end = Min((k \div P) * P + P, TotalPoints)
           /\ w_index = k \div P
           /\ <<w_aligned, w_end>> = processed_data[w_index + 1]

C26_StartedUnaligned ==
    /\ wpc = "writing" /\ hist.startAt = 1 /\ calls = 1
    /\ points_per_upload = 2 /\ TotalPoints = 3
    /\ w_aligned = 0 /\ w_end = 2

\* C27: the worker's check-and-advance (lines 175-177) and a seek's two
\* assignments (lines 43 and 45) exclude each other: the worker takes no step
\* of its check-and-advance while a seek has written the position and not
\* yet the mirror, and a seek writes nothing while the worker is between its
\* check and the end of its advance.
AdvancePcs == {"guard", "adv_cur", "adv_last"}
C27_SeekAndAdvanceExclusive ==
    /\ [][(wpc \in AdvancePcs /\ wpc' # wpc) => cpc # "seek_2"]_vars
    /\ [][(cpc' # cpc /\ "seek_2" \in {cpc, cpc'})
            => wpc \notin {"adv_cur", "adv_last"}]_vars

\* C28: the position changes only in the worker's advance after a write
\* that returned (line 176, run by the worker) and in the first assignment
\* of the setter (line 43); every other step, upload_single_point on the
\* control thread included, leaves it unchanged.
C28_TwoWritersOfPosition ==
    [][current_index' # current_index =>
          \/ wpc = "adv_cur" /\ wpc' = "adv_last"
          \/ cpc = "idle" /\ cpc' = "seek_2"]_vars

\* C29: every write, by the worker's loop or by upload_single_point, is
\* issued for a window [m*P, min(m*P + P, N)) with m >= 0 and P the
\* points_per_upload computed by the initialization, the window is not
\* empty, and the bucket written is bucket m of the preprocessed matrix.
AlignedWindow(aligned, end, index) ==
    LET P == hist.initP
    IN /\ P >= 1 /\ index >= 0
       /\ aligned = index * P
       /\ end = Min(index * P + P, TotalPoints)
       /\ aligned < end
       /\ index < Len(PreprocessData(TotalPoints, P))
       /\ PreprocessData(TotalPoints, P)[index + 1] = <<aligned, end>>

C29_WindowsAligned ==
    /\ wpc = "writing" => AlignedWindow(w_aligned, w_end, w_index)
    /\ cpc = "sp_writing" =>
          AlignedWindow(c_frame.aligned, c_frame.end, c_frame.index)

C29_SeekThenPartialWindow ==
    /\ wpc = "writing" /\ hist.seekNext = 2 /\ hist.initP = 2
    /\ w_aligned = 2 /\ w_end = 3 /\ TotalPoints = 3

\* C30: when floor(position / P) is not below the number of buckets, the
\* step of _process_single_upload ends at once, in upload_single_point with
\* a normal return and in the loop with the sleep of line 149: no
\* notification, no write, no exception, and every field of the engine,
\* position and mirror included, is left as it was.
BucketOutside ==
    /\ points_per_upload >= 1 /\ processed_data # NoData
    /\ current_index \div points_per_upload >= Len(processed_data)

C30_OutsideBucketSkipped ==
    /\ [][(cpc = "sp_window" /\ cpc' # cpc /\ BucketOutside)
            => /\ cpc' = "idle"
               /\ hist'.step = "empty" /\ hist'.stepWrites = 0
               /\ UNCHANGED <<engine, worker>>]_vars
    /\ [][(wpc = "window" /\ wpc' # wpc /\ BucketOutside)
            => /\ wpc' = "sleep" /\ signal' = signal
               /\ UNCHANGED engine]_vars

C30_StepSkipped ==
    /\ cpc = "idle" /\ hist.step = "empty" /\ hist.stepWrites = 0
    /\ hist.stepPos = TotalPoints /\ current_index = TotalPoints
    /\ last_processed_index = TotalPoints

\* ------------------------------------------------------------------- GUI
\* The handlers of LiveUploaderGUI, each run to its end by the GUI thread,
\* with the worker of the GUI's present engine.  A handler is taken whenever
\* its own tests allow it (the enabling of the buttons is not modelled).
\* An engine the GUI has replaced leaves the model together with its worker:
\* only that worker's terminal signal, still connected to the handlers, is
\* kept (gui.orphans).

\* self.live_uploader = LiveUploader()
NewEngine ==
    /\ timestamps_set' = FALSE
    /\ database_details_set' = FALSE
    /\ timestamps' = [count |-> 0, interval |-> 0]
    /\ details' = NoDetails
    /\ database_cleared' = FALSE
    /\ pause_requested' = FALSE
    /\ resume_requested' = FALSE
    /\ current_index' = 0
    /\ last_processed_index' = 0
    /\ client' = 0
    /\ processed_data' = NoData
    /\ points_per_upload' = 0
    /\ upload_interval' = 0
    /\ initialized' = FALSE
    /\ conns' = <<>>

\* the terminal signal of the GUI's thread has not been handled
SignalDue(g) == g.uploader_thread # "none" /\ ~g.delivered

\* A variant of UnloadData that keeps the engine: stop() and cleanup() act
\* on it, and its worker goes on.
UnloadDataSameEngine(g) ==
    /\ IF g.uploader_thread = "running"
       THEN pause_requested' = TRUE /\ resume_requested' = FALSE
       ELSE UNCHANGED flags
    /\ conns' = IF client = 0 THEN conns
                ELSE [conns EXCEPT ![client] = "closed"]
    /\ client' = 0
    /\ initialized' = FALSE
    /\ processed_data' = NoData
    /\ points_per_upload' = 0
    /\ upload_interval' = 0
    /\ gui' = [g EXCEPT !.uploader_thread = "none", !.datastream = 0,
                        !.delivered = FALSE,
                        !.current_index = 0, !.slider = 0,
                        !.index_updated = <<>>,
                        !.orphans = IF SignalDue(g) THEN @ + 1 ELSE @]
    /\ UNCHANGED <<config, position, worker, control, runs, calls, hist>>

\* unload_data, live_uploader_gui.py 298-322, with g the GUI's fields when
\* it is called: stop() and cleanup() act on the engine that is then
\* replaced, the thread is dropped while it may still be running (the
\* index_updated signals of a dropped thread are not followed any further)
UnloadData(g) ==
    /\ NewEngine
    /\ wpc' = "idle" /\ signal' = "none" /\ DropLocals
    /\ gui' = [g EXCEPT !.uploader_thread = "none", !.datastream = 0,
                        !.delivered = FALSE, !.started = 0,
                        !.current_index = 0, !.slider = 0,
                        !.index_updated = <<>>,
                        !.orphans = IF SignalDue(g) THEN @ + 1 ELSE @]
    /\ hist' = NoHistory
    /\ UNCHANGED <<control, runs, calls>>

\* load_data, lines 190-215: a matrix of n columns
GuiLoadData(n) ==
    /\ cpc = "idle" /\ gui.datastream = 0
    /\ gui' = [gui EXCEPT !.datastream = n]
    /\ UNCHANGED <<engine, worker, control, runs, calls, hist>>

\* show_database_settings with DatabaseThread.run succeeding (lines 127-140
\* and 157-159; database_thread.py 19-66): set_database_details on the
\* present engine, then clear_measurements, whose failure is swallowed
GuiSettings(cleared) ==
    /\ cpc = "idle" /\ gui.datastream # 0 /\ ~gui.is_playing
    /\ gui.uploader_thread = "none"
    /\ database_details_set' = TRUE
    /\ details' = SomeDetails
    /\ database_cleared' = cleared
    /\ gui' = [gui EXCEPT !.db_settings = TRUE]
    /\ UNCHANGED <<timestamps_set, timestamps, flags, position, session,
                   worker, control, runs, calls, hist>>

\* toggle_play, lines 324-341, from "not playing" with a running thread:
\* _setup_uploader (set_timestamps with the spin box's interval d), then
\* set_index(k) with the GUI's index k, up to the first assignment of the
\* setter (live_uploader.py 43).  k is gui.current_index, or the value the
\* user has dragged the slider to since the last handler (slider_moved,
\* lines 405-419, leaves that value in self.current_index).
GuiPlayResume(d, k) ==
    /\ cpc = "idle" /\ gui.db_settings /\ ~gui.is_playing
    /\ gui.datastream # 0
    /\ gui.uploader_thread = "running"
    /\ timestamps_set' = TRUE
    /\ timestamps' = [count |-> gui.datastream, interval |-> d]
    /\ current_index' = k
    /\ cpc' = "gui_seek"
    /\ c_arg' = k
    /\ gui' = [gui EXCEPT !.is_playing = TRUE, !.current_index = k,
                          !.slider = IF k = gui.current_index THEN @ ELSE k]
    /\ calls' = Min(calls + 1, MaxCalls)
    /\ hist' = Called(hist, hist)
    /\ UNCHANGED <<database_details_set, details, database_cleared, flags,
                   last_processed_index, session, worker, c_stop, c_frame,
                   runs>>

\* the rest of that handler: the second assignment of the setter
\* (live_uploader.py 45) and resume() (lines 342-343)
GuiPlayResumeEnds ==
    /\ cpc = "gui_seek"
    /\ last_processed_index' = c_arg
    /\ resume_requested' = TRUE
    /\ pause_requested' = FALSE
    /\ cpc' = "idle"
    /\ c_arg' = 0
    /\ hist' = Called(hist, hist)
    /\ UNCHANGED <<config, current_index, session, worker, c_stop, c_frame,
                   counts>>

\* toggle_play, lines 324-338 and 345-360, from "not playing" with no
\* running thread: _setup_uploader, a new UploaderThread on the present
\* engine with the upload interval u, set_index(k), start()
GuiPlayStart(d, u, k) ==
    /\ cpc = "idle" /\ gui.db_settings /\ ~gui.is_playing
    /\ gui.datastream # 0
    /\ gui.uploader_thread # "running"
    /\ runs < MaxRuns
    /\ timestamps_set' = TRUE
    /\ timestamps' = [count |-> gui.datastream, interval |-> d]
    /\ current_index' = k
    /\ last_processed_index' = k
    /\ runs' = runs + 1
    /\ wpc' = "init"
    /\ signal' = "none"
    /\ w_interval' = u
    /\ gui' = [gui EXCEPT !.is_playing = TRUE, !.uploader_thread = "running",
                          !.delivered = FALSE, !.started = @ + 1,
                          !.current_index = k,
                          !.slider = IF k = gui.current_index THEN @ ELSE k,
                          !.index_updated = <<>>,
                          !.orphans = IF SignalDue(gui) THEN @ + 1 ELSE @]
    /\ hist' = [NoHistory EXCEPT !.initP = hist.initP]
    /\ UNCHANGED <<database_details_set, details, database_cleared, flags,
                   session, w_points, w_chunks, frame, control, calls>>

\* QSlider.setValue(v) with the maximum set by _setup_uploader (line 291):
\* the value the slider takes
SliderValue(v, g) == Min(v, g.datastream - 1)

\* toggle_play, lines 324-330 and 364-384, from "playing": if the thread is
\* running, pause(), then the GUI's index is read from the engine and given
\* to the slider, whose valueChanged signal, emitted when its value
\* changes, runs slider_moved (lines 405-419) with the value it took
GuiPause ==
    /\ cpc = "idle" /\ gui.db_settings /\ gui.is_playing
    /\ IF gui.uploader_thread = "running"
       THEN pause_requested' = TRUE /\ resume_requested' = FALSE
       ELSE UNCHANGED flags
    /\ gui' = IF gui.uploader_thread = "running"
              THEN [gui EXCEPT !.is_playing = FALSE,
                               !.slider = SliderValue(current_index, gui),
                               !.current_index =
                                   IF SliderValue(current_index, gui) # gui.slider
                                   THEN SliderValue(current_index, gui)
                                   ELSE current_index]
              ELSE [gui EXCEPT !.is_playing = FALSE]
    /\ calls' = Min(calls + 1, MaxCalls)
    /\ hist' = Called(hist, hist)
    /\ UNCHANGED <<config, position, session, worker, control, runs>>

\* the unload button (enabled while not playing)
GuiUnload ==
    /\ cpc = "idle" /\ ~gui.is_playing /\ gui.datastream # 0
    /\ UnloadData(gui)

\* run() returns after its signal has been emitted: isRunning() is false
ThreadExit ==
    /\ gui.uploader_thread = "running" /\ wpc \in {"done", "error"}
    /\ gui' = [gui EXCEPT !.uploader_thread = "finished"]
    /\ UNCHANGED <<engine, worker, control, runs, calls, hist>>

\* handle_upload_finished, lines 389-392, for the signal of the GUI's thread
HandleFinished ==
    /\ cpc = "idle" /\ SignalDue(gui) /\ wpc = "done"
    /\ UnloadData([gui EXCEPT !.delivered = TRUE])

\* handle_upload_error, lines 394-398, for the signal of the GUI's thread
HandleError ==
    /\ cpc = "idle" /\ SignalDue(gui) /\ wpc = "error"
    /\ gui' = [gui EXCEPT !.is_playing = FALSE, !.delivered = TRUE]
    /\ UNCHANGED <<engine, worker, control, runs, calls, hist>>

\* the same handlers for the signal of a thread the GUI no longer holds
OrphanFinished ==
    /\ cpc = "idle" /\ gui.orphans > 0
    /\ UnloadData([gui EXCEPT !.orphans = @ - 1])

OrphanError ==
    /\ cpc = "idle" /\ gui.orphans > 0
    /\ gui' = [gui EXCEPT !.is_playing = FALSE, !.orphans = @ - 1]
    /\ UNCHANGED <<engine, worker, control, runs, calls, hist>>

NextGui ==
    \/ Worker
    \/ \E n \in 1..MaxPoints : GuiLoadData(n)
    \/ \E cleared \in BOOLEAN : GuiSettings(cleared)
    \/ \E d \in 1..MaxInterval, k \in 0..(gui.datastream - 1) :
          GuiPlayResume(d, k)
    \/ GuiPlayResumeEnds
    \/ \E d \in 1..MaxInterval, u \in 1..MaxInterval,
          k \in 0..(gui.datastream - 1) : GuiPlayStart(d, u, k)
    \/ GuiPause \/ GuiUnload \/ ThreadExit
    \/ HandleFinished \/ HandleError \/ OrphanFinished \/ OrphanError

SpecGui == Init /\ [][NextGui]_vars

\* C21: whenever the GUI starts a thread, no worker is inside upload() on
\* the engine the thread is given; a thread the GUI holds and whose run()
\* has returned, or no thread at all, means no worker inside upload() on
\* the present engine.
C21_OneWorkerPerEngine ==
    /\ [][runs' = runs + 1 => ~Running]_vars
    /\ [](gui.uploader_thread # "running" => ~Running)

C21_SecondThreadOnEngine ==
    /\ gui.started = 2 /\ gui.uploader_thread = "running" /\ wpc = "writing"
    /\ gui.orphans = 0

PauseReturned ==
    /\ hist.sincePause >= 0
    /\ pause_requested /\ ~resume_requested /\ cpc # "resume_2"
C33_AtMostOneWriteAfterPause ==
    /\ [](hist.sincePause <= 1)
    /\ [](hist.sincePause >= 0
            => ((pause_requested /\ ~resume_requested) \/ cpc = "pause_2"))
    /\ [][(PauseReturned /\ wpc \in {"chk_p", "chk_r"}) => wpc' # "window"]_vars
    /\ [](hist.sincePause = 1 => wpc \notin {"window", "notify", "write"})

C33_OneWriteThenBlocked ==
    /\ hist.sincePause = 1 /\ wpc = "pwait" /\ cpc = "idle"
    /\ current_index < TotalPoints

\* C34: a pause() or stop() that began after the thread was started and
\* before the worker ran line 107 is discarded: once the call's pause has
\* returned and the worker is in the loop, both flags are false, the worker
\* never waits at line 143 or 313, and it goes on to write.
C34_EarlyPauseDiscarded ==
    /\ [](((hist.earlyPause # "none") /\ wpc \in LoopPcs /\ cpc # "pause_2")
            => (~pause_requested /\ ~resume_requested))
    /\ []((hist.earlyPause # "none") => wpc \notin {"pwait", "poll_wait"})
    /\ [][((hist.earlyPause # "none") /\ wpc \in {"chk_p", "chk_r"}
             /\ wpc' # wpc) => wpc' = "window"]_vars

C34_WritesAfterStop ==
    /\ hist.earlyPause = "stop" /\ cpc = "idle" /\ wpc = "writing"
    /\ w_index = 0 /\ calls = 1

MaxQueue == 2      \* index_updated signals queued for the GUI thread

\* line 162 with the progress_handler of lines 128-134 and the thread's
\* progress_callback (uploader_thread.py 17-21): index_updated is emitted
\* with the start of the window and queued for the GUI thread
W_NotifyThread ==
    /\ wpc = "notify"
    /\ Len(gui.index_updated) < MaxQueue
    /\ Goto("write")
    /\ hist' = [hist EXCEPT !.notified = Append(@, <<w_aligned, w_end>>)]
    /\ gui' = [gui EXCEPT !.index_updated = Append(@, w_aligned)]
    /\ UNCHANGED <<engine, wlocals, control, runs, calls>>

\* update_slider_position, live_uploader_gui.py 400-403, for the oldest
\* queued signal (slider_moved, run by setValue, is overwritten by line 403)
UpdateSliderPosition ==
    /\ cpc = "idle" /\ gui.index_updated # <<>>
    /\ gui' = [gui EXCEPT !.index_updated = Tail(@),
                          !.slider = SliderValue(Head(gui.index_updated), gui),
                          !.current_index = Head(gui.index_updated)]
    /\ UNCHANGED <<engine, worker, control, runs, calls, hist>>

NextResume ==
    \/ W_InitCheck \/ W_Open \/ W_OpenFail \/ W_StoreInterval
    \/ W_StorePoints \/ W_Preprocess \/ W_StoreData \/ W_SetInitialized
    \/ W_ResetPause \/ W_ResetResume \/ W_LoopTest
    \/ W_CheckPause \/ W_CheckResume \/ W_PauseWait \/ W_Resync
    \/ W_Window \/ W_NotifyThread \/ W_WriteBegin \/ W_WriteOk \/ W_WriteFail
    \/ W_Guard \/ W_AdvanceCurrent \/ W_AdvanceLast
    \/ W_Sleep \/ W_PollPause \/ W_PollResume \/ W_PollWait \/ W_Chunk
    \/ \E n \in 1..MaxPoints : GuiLoadData(n)
    \/ \E cleared \in BOOLEAN : GuiSettings(cleared)
    \/ \E d \in 1..MaxInterval : GuiPlayResume(d, gui.current_index)
    \/ GuiPlayResumeEnds
    \/ \E d \in 1..MaxInterval, u \in 1..MaxInterval :
          GuiPlayStart(d, u, gui.current_index)
    \/ GuiPause \/ GuiUnload \/ ThreadExit \/ UpdateSliderPosition
    \/ HandleFinished \/ HandleError \/ OrphanFinished \/ OrphanError

SpecResume == Init /\ [][NextResume]_vars

\* C36: when toggle_play resumes a thread whose worker is blocked by the
\* pause, the slider not having been moved, the index it writes back into
\* the engine is the position the engine holds: the write neither returns
\* to a bucket the worker has written and advanced past nor passes over
\* one it has not written.
C36_ResumeKeepsPosition ==
    [][(cpc = "idle" /\ cpc' = "gui_seek"
          /\ pause_requested /\ ~resume_requested
          /\ wpc \in {"pwait", "poll_wait"})
         => c_arg' = current_index]_vars

\* C37: while a pause is in force (pause() has returned, no resume() has
\* been called), a call of upload_single_point and the worker never have a
\* write in flight on the same connection at the same time, and never have
\* both written the same bucket with their advance past it still ahead.
StepWritten == {"sp_writing", "sp_guard", "sp_adv_cur", "sp_adv_last"}
WorkerWritten == {"writing", "guard", "adv_cur", "adv_last"}
C37_StepExcludesWorker ==
    (pause_requested /\ ~resume_requested) =>
        /\ ~(wpc = "writing" /\ cpc = "sp_writing" /\ w_client = client)
        /\ ~(wpc \in WorkerWritten /\ cpc \in StepWritten
               /\ w_index = c_frame.index)

\* C38: a run() that has returned has emitted exactly one terminal signal:
\* finished when upload() returned, which it does only from the loop test
\* with the position at or past the end, and error with the exception's
\* text when upload() raised; a run() that has not returned has emitted
\* none.
C38_OneTerminalSignal ==
    /\ [](wpc = "done" => hist.emitted = <<"finished">> /\ signal = "finished")
    /\ [](wpc = "error" =>
            /\ Len(hist.emitted) = 1 /\ hist.emitted[1] = signal
            /\ signal \notin {"none", "finished"})
    /\ [](Running => hist.emitted = <<>> /\ signal = "none")
    /\ [][(wpc # "done" /\ wpc' = "done")
          => wpc = "loop" /\ current_index >= TotalPoints]_vars
    /\ [][(wpc # "error" /\ wpc' = "error") => Running]_vars

C38_SecondRunFailed ==
    /\ runs = 2 /\ wpc = "error" /\ hist.emitted = <<"WriteError">>
    /\ hist.failed = 2

\* C39: in every state where the setter is not between its two assignments
\* (lines 43 and 45), nor the worker's advance between its own (lines 176
\* and 177), the position equals the mirror.
C39_PositionEqualsMirror ==
    (cpc # "seek_2" /\ wpc # "adv_last") =>
        current_index = last_processed_index

\* C40: the flags are never both true unless a pause() or resume() is
\* between its two assignments; once the worker has run line 107 and no
\* such call is part-way through, "pause_requested and not
\* resume_requested" holds exactly when the last call of pause() or
\* resume() made since line 107 was pause(); the worker passes the tests
\* of lines 142 and 311-312 only at a moment when that condition is false,
\* goes on to read resume_requested only when pause_requested is true,
\* enters the waits of lines 143 and 313 only when resume_requested is
\* false, and, when no call is part-way through and the condition is
\* false, passes a test that it begins.
NoFlagCall == cpc \notin {"pause_2", "resume_2"}
PauseState == pause_requested /\ ~resume_requested
C40_FlagsRefinePauseState ==
    /\ [](NoFlagCall => ~(pause_requested /\ resume_requested))
    /\ []((LoopStarted /\ NoFlagCall) =>
            (PauseState <=> hist.lastCall = "pause"))
    /\ [][((wpc \in {"chk_p", "chk_r"} /\ wpc' = "window")
            \/ (wpc \in {"poll_p", "poll_r"} /\ wpc' = "chunk"))
          => ~PauseState]_vars
    /\ [][((wpc = "chk_p" /\ wpc' = "chk_r")
            \/ (wpc = "poll_p" /\ wpc' = "poll_r"))
          => pause_requested]_vars
    /\ [][((wpc = "chk_r" /\ wpc' = "pwait")
            \/ (wpc = "poll_r" /\ wpc' = "poll_wait"))
          => ~resume_requested]_vars
    /\ [][(wpc \in {"chk_p", "poll_p"} /\ wpc' # wpc /\ NoFlagCall
            /\ ~PauseState)
          => wpc' \in {"window", "chunk"}]_vars

C40_PausedAgain ==
    /\ hist.lastCall = "pause" /\ calls = 3 /\ cpc = "idle"
    /\ wpc = "pwait" /\ PauseState /\ ~c_stop

====
